---- MODULE Spec2Model ----
(***************************************************************************)
(* AgentVine SDK client (src/src/client.ts).  The file holds two variants  *)
(* of class AgentVineClient: the health-checking one (lines 15-298) and    *)
(* the plain one (lines 313-455).  The model is a state machine of one     *)
(* client instance, the server it talks to and the host's timers.          *)
(*                                                                         *)
(* Optional values (TypeScript `x?: T`) are sets: {} is undefined and {v}  *)
(* is the value v.  Text is TLA+ strings; String.prototype.includes is     *)
(* Includes, a character-level substring search.                           *)
(***************************************************************************)
EXTENDS Integers, Sequences, FiniteSets, TLC

VARIABLES
    variant,              \* "health" (client.ts:15-298) or "plain" (client.ts:313-455)
    config,               \* this.config
    env,                  \* the client's environment: what the caller and the server do
    ctor,                 \* "none" before `new`, then "ok" or "threw"
    baseUrl,              \* this.baseUrl
    isConnected,          \* this.isConnected
    connectionError,      \* this.connectionError ({} is null)
    agent,                \* this.agent ({} is null)
    healthCheckInterval,  \* this.healthCheckInterval: {} is null, {t} the time it next fires
    lastHealthCheck,      \* this.lastHealthCheck ({} is null)
    initialTimer,         \* the setTimeout of startHealthCheck: {} or {t}
    calls,                \* every request made so far, in the order they were started
    cbLog,                \* the invocations of the configured callbacks, in order
    unhandled,            \* number of promise rejections nothing handles
    now,                  \* the host clock, in ms since construction began
    probe                 \* inputs and results of the pure functions (SpecPure)

vars == <<variant, config, env, ctor, baseUrl, isConnected, connectionError, agent,
          healthCheckInterval, lastHealthCheck, initialTimer, calls, cbLog,
          unhandled, now, probe>>

clientVars == <<isConnected, connectionError, agent, healthCheckInterval,
                lastHealthCheck, initialTimer, calls, cbLog, unhandled, now>>

----------------------------------------------------------------------------
(* Optional values and JavaScript truthiness *)

Has(o) == o # {}

Get(o) == CHOOSE v \in o : TRUE

\* !s for an optional string: undefined and "" are falsy
TruthyStr(o) == Has(o) /\ Get(o) # ""

\* !n for an optional number: undefined and 0 are falsy
TruthyNum(o) == Has(o) /\ Get(o) # 0

\* String.prototype.includes
Includes(m, needle) ==
    \E i \in 1..(Len(m) - Len(needle) + 1) : SubSeq(m, i, i + Len(needle) - 1) = needle

\* m starts with p
StartsWith(m, p) == Len(m) >= Len(p) /\ SubSeq(m, 1, Len(p)) = p

Min(S) == CHOOSE x \in S : \A y \in S : x <= y

----------------------------------------------------------------------------
(* Program constants *)

DEFAULT_TIMEOUT == 10000

HEALTH_CHECK_INTERVAL == 30000

INITIAL_HEALTH_CHECK_DELAY == 1000

(* Bounds of the model *)

MaxUserCalls == 1

MaxProbes == 2

MaxTime == 41000

\* the clock's step while no timer is armed
IdleStep == 20000

----------------------------------------------------------------------------
(* Configurations: AgentVineConfig, src/src/types.ts:6-15 *)

AgentIds == {{}, {""}, {"ak_vdt337btkrm"}}

AgentSecretKeys == {{}, {""}, {"sk_va4n29t954"}}

BaseUrls == {{}, {""}, {"https://proxy.example.com"}}

\* "staging" stands for any value outside the three the type names
Environments == {{}, {"local"}, {"development"}, {"production"}, {"staging"}}

Timeouts == {{}, {0}, {2000}}

AutoVerifies == {{}, {TRUE}, {FALSE}}

\* a callback is configured or not; what it does when invoked is its own choice
Callbacks == {{}, {"fn"}}

AllConfigs ==
    [agentId : AgentIds, agentSecretKey : AgentSecretKeys, baseUrl : BaseUrls,
     environment : Environments, timeout : Timeouts, autoVerify : AutoVerifies,
     onConnectionVerified : Callbacks, onConnectionFailed : Callbacks]

ValidConfig ==
    [agentId |-> {"ak_vdt337btkrm"}, agentSecretKey |-> {"sk_va4n29t954"},
     baseUrl |-> {}, environment |-> {"local"}, timeout |-> {},
     autoVerify |-> {}, onConnectionVerified |-> {}, onConnectionFailed |-> {}]

----------------------------------------------------------------------------
(* Constructor, client.ts:24-56 and 317-341 *)

\* mutant: the environment is looked at first, baseUrl only as the default
ResolveBaseUrlEnvironmentFirst(cfg) ==
    IF cfg.environment = {"local"} THEN "http://localhost:3001"
    ELSE IF cfg.environment = {"development"} THEN "https://dev-api.agentvine.dev"
    ELSE IF TruthyStr(cfg.baseUrl) THEN Get(cfg.baseUrl)
    ELSE "https://api.agentvine.dev"

\* client.ts:28-43
ResolveBaseUrl(cfg) ==
    IF TruthyStr(cfg.baseUrl) THEN Get(cfg.baseUrl)
    ELSE IF cfg.environment = {"local"} THEN "http://localhost:3001"
    ELSE IF cfg.environment = {"development"} THEN "https://dev-api.agentvine.dev"
    ELSE "https://api.agentvine.dev"

\* mutant: only undefined credentials are refused, empty ones pass
MissingCredentialsUndefinedOnly(cfg) == ~Has(cfg.agentId) \/ ~Has(cfg.agentSecretKey)

\* client.ts:45: the condition under which the constructor throws
MissingCredentials(cfg) == ~TruthyStr(cfg.agentId) \/ ~TruthyStr(cfg.agentSecretKey)

----------------------------------------------------------------------------
(* Thrown values and structured errors, src/src/types.ts:40-44 *)

\* an Error instance
Err(name, message) == [kind |-> "Error", name |-> name, message |-> message]

\* a thrown value that is not an Error instance: a string
ThrownString(s) == [kind |-> "string", name |-> "", message |-> s]

\* what response.json() rejects with when the body is not JSON
JsonSyntaxError == Err("SyntaxError", "Unexpected token < in JSON at position 0")

\* what reading a property of a null body throws
NullPropertyError(p) ==
    Err("TypeError", "Cannot read properties of null (reading '" \o p \o "')")

\* what fetch rejects with once controller.abort() has run
AbortError == Err("AbortError", "The user aborted a request.")

\* what a configured callback throws when it throws
CallbackError == Err("Error", "callback failed")

\* client.ts:280: error instanceof Error ? error.message : String(error)
ErrorMessageOf(error) == error.message

\* mutant: the timeout test comes last instead of first
ClassifyTimeoutLast(errorMessage) ==
    IF Includes(errorMessage, "401") \/ Includes(errorMessage, "Unauthorized")
        THEN "AUTH_ERROR"
    ELSE IF Includes(errorMessage, "network") \/ Includes(errorMessage, "fetch")
        THEN "NETWORK_ERROR"
    ELSE IF Includes(errorMessage, "timeout") THEN "TIMEOUT_ERROR"
    ELSE "AGENTVINE_ERROR"

\* client.ts:283 and 288-294: the code of the structured error
Classify(errorMessage) ==
    IF Includes(errorMessage, "timeout") THEN "TIMEOUT_ERROR"
    ELSE IF Includes(errorMessage, "401") \/ Includes(errorMessage, "Unauthorized")
        THEN "AUTH_ERROR"
    ELSE IF Includes(errorMessage, "network") \/ Includes(errorMessage, "fetch")
        THEN "NETWORK_ERROR"
    ELSE "AGENTVINE_ERROR"

\* client.ts:279-297
handleError(error, context) ==
    LET errorMessage == ErrorMessageOf(error)
    IN  [kind |-> "SDKError",
         code |-> Classify(errorMessage),
         message |-> context \o ": " \o
                     (IF errorMessage # "" THEN errorMessage ELSE "Unknown error"),
         details |-> error]

SDKErrorCodes == {"AGENTVINE_ERROR", "TIMEOUT_ERROR", "AUTH_ERROR", "NETWORK_ERROR"}

----------------------------------------------------------------------------
(* Requests, client.ts:245-262 *)

EmptyHeaders == [k \in {} |-> ""]

\* client.ts:247
EffectiveTimeout(cfg) == IF TruthyNum(cfg.timeout) THEN Get(cfg.timeout) ELSE DEFAULT_TIMEOUT

\* client.ts:256-258
DefaultHeaders(cfg) ==
    ("Content-Type" :> "application/json")
    @@ ("X-Agent-Id" :> Get(cfg.agentId))
    @@ ("X-Agent-Secret-Key" :> Get(cfg.agentSecretKey))

\* mutant: headers: options.headers || { defaults }
RequestHeadersSuppliedOnly(cfg, supplied) ==
    IF DOMAIN supplied # {} THEN supplied ELSE DefaultHeaders(cfg)

\* client.ts:255-260: the object literal { defaults, ...options.headers }
RequestHeaders(cfg, supplied) == supplied @@ DefaultHeaders(cfg)

\* client.ts:246 and 253-262: what fetch is called with
makeRequest(cfg, base, endpoint, options) ==
    [url |-> base \o endpoint,
     method |-> options.method,
     headers |-> RequestHeaders(cfg, options.headers),
     body |-> options.body]

\* client.ts:269
TimeoutMessage(timeout) == "Request timeout after " \o ToString(timeout) \o "ms"

\* client.ts:193-200
GetOffersOptions(request) ==
    [method |-> "POST", headers |-> EmptyHeaders,
     body |-> [query |-> request.query, sessionId |-> request.sessionId,
               context |-> request.context]]

\* client.ts:220-227
TestConnectionOptions(t) ==
    [method |-> "POST", headers |-> EmptyHeaders,
     body |-> [query |-> "test query", sessionId |-> "test-session-" \o ToString(t),
               context |-> {"test context"}]]

\* client.ts:138-145
HealthCheckOptions(t) ==
    [method |-> "POST", headers |-> EmptyHeaders,
     body |-> [query |-> "health-check", sessionId |-> "health-" \o ToString(t),
               context |-> {"background-health-check"}]]

OFFERS_ENDPOINT == "/api/sdk/offers"

TEST_ENDPOINT == "/api/sdk/test"

\* the context labels handed to handleError, client.ts:210 and 237
ContextOf(op) == IF op = "getOffers" THEN "Failed to get offers" ELSE "Connection test failed"

\* OfferRequest values a caller passes, src/src/types.ts:17-21
OfferRequests ==
    {[query |-> "productivity", sessionId |-> "s1", context |-> {}],
     [query |-> "productivity", sessionId |-> "s1", context |-> {"productivity_tools"}]}

----------------------------------------------------------------------------
(* The server: responses to the two endpoints, spec section 6 *)

NoFields ==
    [kind |-> "object", error |-> {}, success |-> {}, message |-> {}, agent |-> {},
     query |-> {}, sessionId |-> {}, offers |-> {}]

\* a body that is not JSON (an HTML error page, an empty body)
InvalidJson == [NoFields EXCEPT !.kind = "invalid"]

\* the JSON text `null`
JsonNull == [NoFields EXCEPT !.kind = "null"]

\* { "error": e } and {}
ErrorBody(e) == [NoFields EXCEPT !.error = e]

\* OfferResponse, src/src/types.ts:33-38
OfferBody(success, request, offers) ==
    [NoFields EXCEPT !.success = {success}, !.query = {request.query},
                     !.sessionId = {request.sessionId}, !.offers = {offers}]

\* TestConnectionResult, src/src/types.ts:46-55
TestBody(success, message, a) ==
    [NoFields EXCEPT !.success = {success}, !.message = {message}, !.agent = a]

\* Offer, src/src/types.ts:23-31
Offer(id, title) ==
    [id |-> id, title |-> title, description |-> "Y", callToAction |-> "Go",
     actionEndpoint |-> "https://x", productName |-> "P", productWebsite |-> "https://p"]

Agent(id, name) == [id |-> id, name |-> name, type |-> "chatbot", status |-> "active"]

\* the Response fetch resolves with; its body is read later, by response.json()
Response(status, statusText) ==
    [ok |-> (status >= 200 /\ status <= 299), status |-> status, statusText |-> statusText]

\* servers that give the same answer to every /api/sdk/test request
SameAnswer ==
    [active   |-> [response |-> Response(200, "OK"),
                   body |-> TestBody(TRUE, "Connection successful", {Agent(7, "bot")})],
     inactive |-> [response |-> Response(200, "OK"),
                   body |-> TestBody(FALSE, "Agent is not active", {})],
     noagent  |-> [response |-> Response(200, "OK"),
                   body |-> TestBody(TRUE, "Connection successful", {})],
     refused  |-> [response |-> Response(401, "Unauthorized"),
                   body |-> ErrorBody({"bad creds"})]]

SameAnswerServers == DOMAIN SameAnswer

\* env.server = "full": every kind of answer; "basic": one success and one failure;
\* a name of SameAnswerServers: that answer to every request
OffersStatuses(server) ==
    IF server = "basic" THEN {Response(200, "OK"), Response(401, "Unauthorized")}
    ELSE {Response(200, "OK"), Response(401, "Unauthorized"),
          Response(500, "Internal Server Error")}

TestStatuses(server) ==
    IF server \in SameAnswerServers THEN {SameAnswer[server].response}
    ELSE IF server = "basic" THEN {Response(200, "OK"), Response(401, "Unauthorized")}
    ELSE {Response(200, "OK"), Response(401, "Unauthorized"),
          Response(503, "Service Unavailable")}

\* bodies of non-2xx responses
ErrorBodies(server) ==
    IF server \in SameAnswerServers THEN {SameAnswer[server].body}
    ELSE IF server = "basic" THEN {ErrorBody({"bad creds"})}
    ELSE {ErrorBody({"bad creds"}), ErrorBody({}), InvalidJson, JsonNull}

\* bodies of 2xx responses of /api/sdk/offers
OffersBodies(server, request) ==
    IF server = "basic" THEN {OfferBody(TRUE, request, <<Offer(2, "B"), Offer(1, "A")>>)}
    ELSE {OfferBody(TRUE, request, <<Offer(2, "B"), Offer(1, "A")>>),
          OfferBody(FALSE, request, <<Offer(1, "A")>>),
          InvalidJson}

\* bodies of 2xx responses of /api/sdk/test
TestBodies(server) ==
    IF server \in SameAnswerServers THEN {SameAnswer[server].body}
    ELSE IF server = "basic"
    THEN {TestBody(TRUE, "Connection successful", {Agent(7, "bot")}),
          TestBody(FALSE, "Agent is not active", {})}
    ELSE {TestBody(TRUE, "Connection successful", {Agent(7, "bot")}),
          TestBody(TRUE, "Connection successful", {Agent(8, "bot2")}),
          TestBody(TRUE, "Connection successful", {}),
          TestBody(FALSE, "Agent is not active", {}),
          JsonNull,
          InvalidJson}

\* what fetch rejects with when the transport fails
TransportErrors(server) ==
    IF server = "basic" THEN {Err("TypeError", "Failed to fetch")}
    ELSE {Err("TypeError", "Failed to fetch"), Err("FetchError", "socket hang up")}

----------------------------------------------------------------------------
(* Calls: one record per request the client has made *)

UserOps == {"getOffers", "testConnection"}

\* the operations whose body is testConnection's (client.ts:218-239)
RequestOps == {"getOffers", "testConnection", "verifyConnection"}

NewCall(op, request, timeout) ==
    [op |-> op, request |-> {request}, start |-> now, timeout |-> timeout,
     timer |-> {now + timeout},   \* client.ts:250, the armed timeoutId
     aborted |-> FALSE,           \* controller.abort() has run
     pc |-> "fetch", response |-> {}, body |-> {}, outcome |-> {}]

Returned(v) == [kind |-> "resolved", value |-> v, error |-> Err("", "")]

Threw(e) == [kind |-> "rejected", value |-> NoFields, error |-> e]

CallIds == 1..Len(calls)

NumCalls(ops) == Cardinality({i \in CallIds : calls[i].op \in ops})

InFlight(c) == c.pc \in {"fetch", "json"}

\* a settled call whose result the caller has consumed: only its operation is kept
Forgotten(c) ==
    [op |-> c.op, request |-> {}, start |-> 0, timeout |-> 0, timer |-> {},
     aborted |-> FALSE, pc |-> "forgotten", response |-> {}, body |-> {}, outcome |-> {}]

\* mutant: one AbortController is shared, an abort reaches every pending fetch
WithCallSharedController(i, c) ==
    [j \in 1..Len(calls) |->
        IF j = i THEN c
        ELSE IF calls[j].pc \in {"done", "rejected"} THEN Forgotten(calls[j])
        ELSE IF c.aborted /\ calls[j].pc = "fetch" THEN [calls[j] EXCEPT !.aborted = TRUE]
        ELSE calls[j]]

\* call i becomes `c`; the results of the calls settled before it are dropped
WithCall(i, c) ==
    [j \in 1..Len(calls) |->
        IF j = i THEN c
        ELSE IF calls[j].pc \in {"done", "rejected"} THEN Forgotten(calls[j])
        ELSE calls[j]]

\* a configured callback is running (user code, called synchronously)
InCallback == \E i \in CallIds : calls[i].pc \in {"onConnectionVerified", "onConnectionFailed"}

ArmedDeadlines ==
    healthCheckInterval \cup initialTimer \cup UNION {calls[i].timer : i \in CallIds}

\* client.ts:98-104
getConnectionStatus == [isConnected |-> isConnected, agent |-> agent, error |-> connectionError]

\* client.ts:109-111
isReady == isConnected

----------------------------------------------------------------------------
(* The request methods, client.ts:191-239 *)

Reverse(q) == [k \in 1..Len(q) |-> q[Len(q) + 1 - k]]

\* mutant: the offers are returned in the opposite order
ReturnDataReversed(data) ==
    IF Has(data.offers) THEN [data EXCEPT !.offers = {Reverse(Get(data.offers))}] ELSE data

\* client.ts:207-208 and 234-235: `data` is returned as parsed
ReturnData(data) == data

\* client.ts:204 and 231: the message of the Error thrown for a non-2xx response
HttpErrorMessage(response, body) ==
    IF TruthyStr(body.error) THEN Get(body.error)
    ELSE "HTTP " \o ToString(response.status) \o ": " \o response.statusText

\* client.ts:202-208 and 229-235: the rest of the try block once fetch has
\* resolved with `response` and response.json() has settled on `body`
AfterJson(response, body) ==
    IF body.kind = "invalid" THEN Threw(JsonSyntaxError)
    ELSE IF ~response.ok THEN
        IF body.kind = "null" THEN Threw(NullPropertyError("error"))
        ELSE Threw(Err("Error", HttpErrorMessage(response, body)))
    ELSE Returned(ReturnData(body))

\* mutant: a failure to read the body is rethrown as it is
CatchAndClassifyNotSyntaxErrors(op, completion) ==
    IF completion.kind = "rejected" /\ completion.error.name # "SyntaxError"
        THEN Threw(handleError(completion.error, ContextOf(op)))
        ELSE completion

\* mutant: while the client is disconnected the error says so
CatchAndClassifyOffline(op, completion) ==
    IF completion.kind = "rejected"
        THEN Threw([handleError(completion.error, ContextOf(op)) EXCEPT
                       !.code = IF variant = "health" /\ ~isConnected
                                    THEN "CONNECTION_FAILED" ELSE @])
        ELSE completion

\* client.ts:209-211 and 236-238: the catch block
CatchAndClassify(op, completion) ==
    IF completion.kind = "rejected"
        THEN Threw(handleError(completion.error, ContextOf(op)))
        ELSE completion

\* client.ts:266-272: the catch block of makeRequest
MakeRequestCatch(error, timeout) ==
    IF error.kind = "Error" /\ error.name = "AbortError"
        THEN Err("Error", TimeoutMessage(timeout))
        ELSE error

----------------------------------------------------------------------------
(* verifyConnection, client.ts:61-93 *)

\* client.ts:64
VerifySucceeds(result) ==
    /\ result.kind = "resolved"
    /\ result.value.kind = "object"
    /\ result.value.success = {TRUE}
    /\ Has(result.value.agent)

\* the value the catch of client.ts:78 receives when line 64 does not hold
VerifyCaught(result) ==
    IF result.kind = "rejected" THEN result.error
    ELSE IF result.value.kind = "null" THEN NullPropertyError("success")
    ELSE Err("Error", IF TruthyStr(result.value.message)
                          THEN Get(result.value.message)
                          ELSE "Connection verification failed")

\* mutant: the error of a failed verification carries the generic code
ConnectionFailedGenericCode(error) ==
    [kind |-> "SDKError", code |-> "AGENTVINE_ERROR",
     message |-> IF error.message # "" THEN error.message
                 ELSE "Failed to verify agent credentials",
     details |-> error]

\* client.ts:80-84
ConnectionFailed(error) ==
    [kind |-> "SDKError", code |-> "CONNECTION_FAILED",
     message |-> IF error.message # "" THEN error.message
                 ELSE "Failed to verify agent credentials",
     details |-> error]

\* one invocation of a configured callback: its argument and the status it can read
CallbackCall(name, arg, status) == [name |-> name, arg |-> arg, status |-> status]

\* mutant: the catch block records the error and leaves the flag as it is
VerifyCatchKeepsFlag(error) ==
    LET e == ConnectionFailed(error)
    IN  /\ isConnected' = isConnected
        /\ connectionError' = {e}
        /\ cbLog' = IF Has(config.onConnectionFailed)
                       THEN Append(cbLog, CallbackCall("onConnectionFailed", e,
                                [isConnected |-> isConnected, agent |-> agent,
                                 error |-> {e}]))
                       ELSE cbLog

\* client.ts:78-92
VerifyCatch(error) ==
    LET e == ConnectionFailed(error)
    IN  /\ isConnected' = FALSE
        /\ connectionError' = {e}
        /\ cbLog' = IF Has(config.onConnectionFailed)
                       THEN Append(cbLog, CallbackCall("onConnectionFailed", e,
                                [isConnected |-> FALSE, agent |-> agent, error |-> {e}]))
                       ELSE cbLog

AfterCatchPc == IF Has(config.onConnectionFailed) THEN "onConnectionFailed" ELSE "done"

\* client.ts:63-92 from the moment testConnection settles with `result`, up to
\* the invocation of a callback
VerifyContinue(i, c, result) ==
    IF VerifySucceeds(result)
    THEN /\ isConnected' = TRUE
         /\ agent' = result.value.agent
         /\ connectionError' = {}
         /\ cbLog' = IF Has(config.onConnectionVerified)
                        THEN Append(cbLog, CallbackCall("onConnectionVerified",
                                 Get(result.value.agent),
                                 [isConnected |-> TRUE, agent |-> result.value.agent,
                                  error |-> {}]))
                        ELSE cbLog
         /\ calls' = WithCall(i,
                [c EXCEPT !.pc = IF Has(config.onConnectionVerified)
                                    THEN "onConnectionVerified" ELSE "done",
                          !.outcome = {result}, !.timer = {}])
         /\ UNCHANGED <<lastHealthCheck, unhandled>>
    ELSE /\ VerifyCatch(VerifyCaught(result))
         /\ calls' = WithCall(i,
                [c EXCEPT !.pc = AfterCatchPc, !.outcome = {result}, !.timer = {}])
         /\ UNCHANGED <<agent, lastHealthCheck, unhandled>>

----------------------------------------------------------------------------
(* performHealthCheck, client.ts:135-174 *)

\* client.ts:159-163
HealthCheckFailed(response) ==
    [kind |-> "SDKError", code |-> "HEALTH_CHECK_FAILED",
     message |-> "Background health check failed",
     details |-> [status |-> response.status, statusText |-> response.statusText]]

\* mutant: the error of a probe is classified like the error of a request
HealthCheckErrorClassified(error) ==
    [kind |-> "SDKError", code |-> Classify(error.message),
     message |-> IF error.message # "" THEN error.message ELSE "Health check error",
     details |-> error]

\* client.ts:168-172
HealthCheckError(error) ==
    [kind |-> "SDKError", code |-> "HEALTH_CHECK_ERROR",
     message |-> IF error.message # "" THEN error.message ELSE "Health check error",
     details |-> error]

\* mutant: the catch block forgets to record the error
HealthCheckCatchKeepsError(i, c, error) ==
    /\ isConnected' = FALSE
    /\ connectionError' = connectionError
    /\ calls' = WithCall(i,
           [c EXCEPT !.pc = "done", !.outcome = {Returned(NoFields)}, !.timer = {}])

\* client.ts:165-173
HealthCheckCatch(i, c, error) ==
    /\ isConnected' = FALSE
    /\ connectionError' = {HealthCheckError(error)}
    /\ calls' = WithCall(i,
           [c EXCEPT !.pc = "done", !.outcome = {Returned(NoFields)}, !.timer = {}])

----------------------------------------------------------------------------
(* A request method's promise settles with `result`: the caller's await, or
   the continuation of verifyConnection, runs *)

\* mutant: the timer of a caller's request is not cleared when it settles
SettleKeepsTimer(i, c, result) ==
    IF c.op = "verifyConnection"
    THEN VerifyContinue(i, c, result)
    ELSE /\ calls' = WithCall(i, [c EXCEPT !.pc = "done", !.outcome = {result}])
         /\ UNCHANGED <<isConnected, connectionError, agent, lastHealthCheck,
                        cbLog, unhandled>>

\* mutant: a caller's request that settles also sets the connected flag
SettleSetsFlag(i, c, result) ==
    IF c.op = "verifyConnection"
    THEN VerifyContinue(i, c, result)
    ELSE /\ calls' = WithCall(i,
                [c EXCEPT !.pc = "done", !.outcome = {result}, !.timer = {}])
         /\ isConnected' = (result.kind = "resolved")
         /\ UNCHANGED <<connectionError, agent, lastHealthCheck, cbLog, unhandled>>

Settle(i, c, result) ==
    IF c.op = "verifyConnection"
    THEN VerifyContinue(i, c, result)
    ELSE /\ calls' = WithCall(i,
                [c EXCEPT !.pc = "done", !.outcome = {result}, !.timer = {}])
         /\ UNCHANGED <<isConnected, connectionError, agent, lastHealthCheck,
                        cbLog, unhandled>>

----------------------------------------------------------------------------
(* Actions *)

\* mutant: only the initial probe is scheduled, no interval
startHealthCheckOnce ==
    /\ healthCheckInterval' = {}
    /\ initialTimer' = {now + INITIAL_HEALTH_CHECK_DELAY}

\* client.ts:117-130
startHealthCheck ==
    /\ healthCheckInterval' = {now + HEALTH_CHECK_INTERVAL}
    /\ initialTimer' = {now + INITIAL_HEALTH_CHECK_DELAY}

\* the synchronous part of testConnection: client.ts:218-227 and 245-262
StartTestConnection(op) ==
    NewCall(op, makeRequest(config, baseUrl', TEST_ENDPOINT, TestConnectionOptions(now)),
            EffectiveTimeout(config))

\* mutant: verification only when autoVerify is explicitly true
AutoVerifyOnlyWhenTrue(cfg) == cfg.autoVerify = {TRUE}

\* client.ts:50: config.autoVerify !== false
AutoVerifyEnabled(cfg) == cfg.autoVerify # {FALSE}

\* mutant: the credentials are checked after the probe timers have been armed
ConstructChecksLast ==
    /\ ctor = "none"
    /\ baseUrl' = ResolveBaseUrl(config)
    /\ ctor' = IF MissingCredentials(config) THEN "threw" ELSE "ok"
    /\ IF variant = "health"
       THEN /\ calls' = IF AutoVerifyEnabled(config) /\ ~MissingCredentials(config)
                           THEN <<StartTestConnection("verifyConnection")>>
                           ELSE calls
            /\ startHealthCheck
       ELSE UNCHANGED <<calls, healthCheckInterval, initialTimer>>
    /\ UNCHANGED <<variant, config, env, isConnected, connectionError, agent,
                   lastHealthCheck, cbLog, unhandled, now, probe>>

\* new AgentVineClient(config): client.ts:24-56 (health) and 317-341 (plain)
Construct ==
    /\ ctor = "none"
    /\ baseUrl' = ResolveBaseUrl(config)
    /\ IF MissingCredentials(config)
       THEN /\ ctor' = "threw"
            /\ UNCHANGED <<calls, healthCheckInterval, initialTimer>>
       ELSE /\ ctor' = "ok"
            /\ IF variant = "health"
               THEN /\ calls' = IF AutoVerifyEnabled(config)
                                   THEN <<StartTestConnection("verifyConnection")>>
                                   ELSE calls
                    /\ startHealthCheck
               ELSE UNCHANGED <<calls, healthCheckInterval, initialTimer>>
    /\ UNCHANGED <<variant, config, env, isConnected, connectionError, agent,
                   lastHealthCheck, cbLog, unhandled, now, probe>>

\* a caller invokes getOffers(request): client.ts:191-200 and 245-262
GetOffers(request) ==
    /\ ctor = "ok"
    /\ NumCalls(UserOps) < env.userCalls
    /\ calls' = Append(calls,
           NewCall("getOffers",
                   makeRequest(config, baseUrl, OFFERS_ENDPOINT, GetOffersOptions(request)),
                   EffectiveTimeout(config)))
    /\ UNCHANGED <<variant, config, env, ctor, baseUrl, isConnected, connectionError, agent,
                   healthCheckInterval, lastHealthCheck, initialTimer, cbLog,
                   unhandled, now, probe>>

\* a caller invokes testConnection(): client.ts:218-227 and 245-262
TestConnection ==
    /\ ctor = "ok"
    /\ NumCalls(UserOps) < env.userCalls
    /\ calls' = Append(calls,
           NewCall("testConnection",
                   makeRequest(config, baseUrl, TEST_ENDPOINT, TestConnectionOptions(now)),
                   EffectiveTimeout(config)))
    /\ UNCHANGED <<variant, config, env, ctor, baseUrl, isConnected, connectionError, agent,
                   healthCheckInterval, lastHealthCheck, initialTimer, cbLog,
                   unhandled, now, probe>>

\* the responses the server can give to call c
ResponsesTo(c) ==
    IF c.op = "getOffers" THEN OffersStatuses(env.server) ELSE TestStatuses(env.server)

\* the bodies that can follow the response of call c
BodiesOf(c) ==
    IF ~Has(c.response) THEN {}
    ELSE IF ~Get(c.response).ok THEN ErrorBodies(env.server)
    ELSE IF c.op = "getOffers"
        THEN OffersBodies(env.server,
                          [query |-> Get(c.request).body.query,
                           sessionId |-> Get(c.request).body.sessionId])
        ELSE TestBodies(env.server)

\* fetch resolves with a response: client.ts:253-265, then 202/229 or 147-164
FetchResolves(i, response) ==
    /\ calls[i].pc = "fetch"
    /\ ~InCallback
    /\ LET c == [calls[i] EXCEPT !.response = {response}, !.timer = {}]
       IN  IF c.op = "performHealthCheck" /\ ~response.ok
           THEN /\ isConnected' = FALSE
                /\ connectionError' = {HealthCheckFailed(response)}
                /\ calls' = WithCall(i,
                       [c EXCEPT !.pc = "done", !.outcome = {Returned(NoFields)}])
           ELSE /\ calls' = [calls EXCEPT ![i] = [c EXCEPT !.pc = "json"]]
                /\ UNCHANGED <<isConnected, connectionError>>
    /\ UNCHANGED <<variant, config, env, ctor, baseUrl, agent, healthCheckInterval,
                   lastHealthCheck, initialTimer, cbLog, unhandled, now, probe>>

\* the request ends with the error `thrown` inside makeRequest's try
RequestFails(i, c, thrown) ==
    LET error == MakeRequestCatch(thrown, c.timeout)
    IN  IF c.op = "performHealthCheck"
        THEN /\ HealthCheckCatch(i, c, error)
             /\ UNCHANGED <<agent, lastHealthCheck, cbLog, unhandled>>
        ELSE Settle(i, c, CatchAndClassify(c.op, Threw(error)))

\* fetch rejects with a transport error: client.ts:266-272, then the caller's catch
FetchRejects(i, error) ==
    /\ calls[i].pc = "fetch"
    /\ ~InCallback
    /\ RequestFails(i, calls[i], error)
    /\ UNCHANGED <<variant, config, env, ctor, baseUrl, healthCheckInterval, initialTimer,
                   now, probe>>

\* the timer of client.ts:250 fires: controller.abort(), fetch rejects with an
\* AbortError, client.ts:266-270, then the caller's catch
TimeoutFires(i) ==
    /\ calls[i].pc = "fetch"
    /\ ~InCallback
    /\ Has(calls[i].timer)
    /\ Get(calls[i].timer) <= now
    /\ RequestFails(i, [calls[i] EXCEPT !.aborted = TRUE], AbortError)
    /\ UNCHANGED <<variant, config, env, ctor, baseUrl, healthCheckInterval, initialTimer,
                   now, probe>>

\* mutant: the agent of the response is stored whether it has one or not
AgentOfBody(body) == body.agent

\* client.ts:153-156: the agent is refreshed when the response has one
RefreshedAgent(body) == IF Has(body.agent) THEN body.agent ELSE agent

\* response.json() settles on `body`: client.ts:203-211, 230-238 or 148-156
JsonSettles(i, body) ==
    /\ calls[i].pc = "json"
    /\ ~InCallback
    /\ LET c == [calls[i] EXCEPT !.body = {body}]
           response == Get(c.response)
       IN  IF c.op # "performHealthCheck"
           THEN Settle(i, c, CatchAndClassify(c.op, AfterJson(response, body)))
           ELSE IF body.kind = "invalid"
           THEN /\ HealthCheckCatch(i, c, JsonSyntaxError)
                /\ UNCHANGED <<agent, lastHealthCheck, cbLog, unhandled>>
           ELSE IF body.kind = "null"
           THEN /\ HealthCheckCatch(i, c, NullPropertyError("agent"))
                /\ lastHealthCheck' = {now}
                /\ UNCHANGED <<agent, cbLog, unhandled>>
           ELSE /\ isConnected' = TRUE
                /\ connectionError' = {}
                /\ lastHealthCheck' = {now}
                /\ agent' = RefreshedAgent(body)
                /\ calls' = WithCall(i,
                       [c EXCEPT !.pc = "done", !.outcome = {Returned(NoFields)}])
                /\ UNCHANGED <<cbLog, unhandled>>
    /\ UNCHANGED <<variant, config, env, ctor, baseUrl, healthCheckInterval, initialTimer,
                   now, probe>>

\* the running callback returns: client.ts:73-74 or 90-91
CallbackReturns(i) ==
    /\ calls[i].pc \in {"onConnectionVerified", "onConnectionFailed"}
    /\ calls' = [calls EXCEPT ![i].pc = "done"]
    /\ UNCHANGED <<variant, config, env, ctor, baseUrl, isConnected, connectionError, agent,
                   healthCheckInterval, lastHealthCheck, initialTimer, cbLog,
                   unhandled, now, probe>>

\* onConnectionVerified throws inside the try: client.ts:73, then 78-92
OnVerifiedThrows(i) ==
    /\ calls[i].pc = "onConnectionVerified"
    /\ VerifyCatch(CallbackError)
    /\ calls' = [calls EXCEPT ![i].pc = AfterCatchPc]
    /\ UNCHANGED <<variant, config, env, ctor, baseUrl, agent, healthCheckInterval,
                   lastHealthCheck, initialTimer, unhandled, now, probe>>

\* onConnectionFailed throws inside the catch: client.ts:90; the promise of
\* verifyConnection rejects and the constructor (client.ts:51) dropped it
OnFailedThrows(i) ==
    /\ calls[i].pc = "onConnectionFailed"
    /\ calls' = [calls EXCEPT ![i].pc = "rejected"]
    /\ unhandled' = unhandled + 1
    /\ UNCHANGED <<variant, config, env, ctor, baseUrl, isConnected, connectionError, agent,
                   healthCheckInterval, lastHealthCheck, initialTimer, cbLog,
                   now, probe>>

\* the synchronous part of performHealthCheck: client.ts:135-145 and 245-262
StartHealthCheck ==
    calls' = Append(calls,
        NewCall("performHealthCheck",
                makeRequest(config, baseUrl, TEST_ENDPOINT, HealthCheckOptions(now)),
                EffectiveTimeout(config)))

\* mutant: the period doubles while the client is disconnected
NextDeadlineBacksOff(deadline) ==
    IF isConnected THEN deadline + HEALTH_CHECK_INTERVAL
    ELSE deadline + 2 * HEALTH_CHECK_INTERVAL

\* client.ts:124-126: setInterval re-arms itself one period later, whatever
\* the callback did
NextIntervalDeadline(deadline) == deadline + HEALTH_CHECK_INTERVAL

\* the setInterval callback of client.ts:124-126 runs
IntervalFires ==
    /\ Has(healthCheckInterval)
    /\ Get(healthCheckInterval) <= now
    /\ ~InCallback
    /\ NumCalls({"performHealthCheck"}) < MaxProbes
    /\ healthCheckInterval' = {NextIntervalDeadline(Get(healthCheckInterval))}
    /\ StartHealthCheck
    /\ UNCHANGED <<variant, config, env, ctor, baseUrl, isConnected, connectionError, agent,
                   lastHealthCheck, initialTimer, cbLog, unhandled, now, probe>>

\* the setTimeout callback of client.ts:129 runs
InitialTimerFires ==
    /\ Has(initialTimer)
    /\ Get(initialTimer) <= now
    /\ ~InCallback
    /\ NumCalls({"performHealthCheck"}) < MaxProbes
    /\ initialTimer' = {}
    /\ StartHealthCheck
    /\ UNCHANGED <<variant, config, env, ctor, baseUrl, isConnected, connectionError, agent,
                   healthCheckInterval, lastHealthCheck, cbLog, unhandled, now, probe>>

\* destroy(): client.ts:179-184
destroy ==
    /\ ctor = "ok"
    /\ variant = "health"
    /\ healthCheckInterval' = {}
    /\ UNCHANGED <<variant, config, env, ctor, baseUrl, isConnected, connectionError, agent,
                   lastHealthCheck, initialTimer, calls, cbLog, unhandled, now, probe>>

\* time passes: to the next armed timer, none being due; by IdleStep when none is armed
Tick ==
    /\ ctor = "ok"
    /\ ~InCallback
    /\ \A d \in ArmedDeadlines : d > now
    /\ LET next == IF ArmedDeadlines # {} THEN Min(ArmedDeadlines) ELSE now + IdleStep
       IN  /\ next <= MaxTime
           /\ now' = next
    /\ UNCHANGED <<variant, config, env, ctor, baseUrl, isConnected, connectionError, agent,
                   healthCheckInterval, lastHealthCheck, initialTimer, calls, cbLog,
                   unhandled, probe>>

----------------------------------------------------------------------------
(* Specifications *)

NoProbe == [fn |-> "none"]

InitClient ==
    /\ ctor = "none"
    /\ baseUrl = ""
    /\ isConnected = FALSE
    /\ connectionError = {}
    /\ agent = {}
    /\ healthCheckInterval = {}
    /\ lastHealthCheck = {}
    /\ initialTimer = {}
    /\ calls = <<>>
    /\ cbLog = <<>>
    /\ unhandled = 0
    /\ now = 0
    /\ probe = NoProbe

\* the configurations the client is run with
RunConfigs ==
    {ValidConfig,
     [ValidConfig EXCEPT !.onConnectionVerified = {"fn"}, !.onConnectionFailed = {"fn"}],
     [ValidConfig EXCEPT !.autoVerify = {FALSE}, !.timeout = {2000}]}

\* The runs explored: the health-checking client left alone with a server that can
\* answer in every way; the health-checking client without auto-verification,
\* with one caller invocation and a server with one success and one failure; the
\* plain client with MaxUserCalls invocations and a server that can answer in
\* every way.
Init ==
    /\ \/ /\ variant = "health"
          /\ config \in RunConfigs
          /\ env = [userCalls |-> 0, server |-> "full"]
       \/ /\ variant = "health"
          /\ config \in {c \in RunConfigs : c.autoVerify = {FALSE}}
          /\ env = [userCalls |-> 1, server |-> "basic"]
       \/ /\ variant = "plain"
          /\ config \in RunConfigs
          /\ env = [userCalls |-> MaxUserCalls, server |-> "full"]
    /\ InitClient

Next ==
    \/ Construct
    \/ \E request \in OfferRequests : GetOffers(request)
    \/ TestConnection
    \/ \E i \in CallIds : \E response \in ResponsesTo(calls[i]) : FetchResolves(i, response)
    \/ \E i \in CallIds : \E error \in TransportErrors(env.server) : FetchRejects(i, error)
    \/ \E i \in CallIds : TimeoutFires(i)
    \/ \E i \in CallIds : \E body \in BodiesOf(calls[i]) : JsonSettles(i, body)
    \/ \E i \in CallIds : CallbackReturns(i)
    \/ \E i \in CallIds : OnVerifiedThrows(i)
    \/ \E i \in CallIds : OnFailedThrows(i)
    \/ IntervalFires
    \/ InitialTimerFires
    \/ destroy
    \/ Tick

Spec == Init /\ [][Next]_vars

\* Construction alone, over every configuration and both variants, followed by
\* at most one caller invocation
InitCtor ==
    /\ variant \in {"health", "plain"}
    /\ config \in AllConfigs
    /\ env = [userCalls |-> 1, server |-> "basic"]
    /\ InitClient

NextCtor ==
    \/ Construct
    \/ \E request \in OfferRequests : GetOffers(request)
    \/ TestConnection

SpecCtor == InitCtor /\ [][NextCtor]_vars

\* headers a caller of makeRequest can pass in options.headers
SuppliedHeaders ==
    {EmptyHeaders,
     "Content-Type" :> "text/plain",
     "X-Agent-Id" :> "someone-else",
     "X-Agent-Secret-Key" :> "another-key",
     "X-Request-Id" :> "r-1",
     ("X-Request-Id" :> "r-1") @@ ("Content-Type" :> "text/plain"),
     ("X-Agent-Id" :> "someone-else") @@ ("X-Agent-Secret-Key" :> "another-key")}

\* makeRequest applied to options that carry headers: client.ts:245-262
ApplyMakeRequest(request, supplied) ==
    /\ ctor = "ok"
    /\ probe' = [fn |-> "makeRequest", supplied |-> supplied,
                 request |-> makeRequest(config, baseUrl, OFFERS_ENDPOINT,
                                 [GetOffersOptions(request) EXCEPT !.headers = supplied])]
    /\ UNCHANGED <<variant, config, env, ctor, baseUrl, clientVars>>

\* The requests of every operation, the server staying silent, and makeRequest
\* applied to options with headers
InitRequests ==
    /\ variant \in {"health", "plain"}
    /\ config \in RunConfigs
    /\ env = [userCalls |-> 1, server |-> "basic"]
    /\ InitClient

NextRequests ==
    \/ Construct
    \/ \E request \in OfferRequests : GetOffers(request)
    \/ TestConnection
    \/ InitialTimerFires
    \/ Tick
    \/ \E request \in OfferRequests : \E supplied \in SuppliedHeaders :
          ApplyMakeRequest(request, supplied)

SpecRequests == InitRequests /\ [][NextRequests]_vars

\* pieces of failure messages; the ones the classifier looks for among them
MessageParts ==
    {"", "timeout", "401", "Unauthorized", "network", "fetch",
     "Timeout", "unauthorized", "x "}

Messages == {a \o b : a \in MessageParts, b \in MessageParts}

ThrownValues == {Err("Error", m) : m \in Messages} \cup {ThrownString(m) : m \in Messages}

Contexts == {ContextOf("getOffers"), ContextOf("testConnection")}

\* handleError applied to a thrown value: client.ts:279-297
ApplyHandleError(error, context) ==
    /\ probe' = [fn |-> "handleError", error |-> error, context |-> context,
                 result |-> handleError(error, context)]
    /\ UNCHANGED <<variant, config, env, ctor, baseUrl, clientVars>>

InitPure ==
    /\ variant = "plain"
    /\ config = ValidConfig
    /\ env = [userCalls |-> 0, server |-> "basic"]
    /\ InitClient

NextPure == \E error \in ThrownValues : \E context \in Contexts : ApplyHandleError(error, context)

SpecPure == InitPure /\ [][NextPure]_vars

----------------------------------------------------------------------------
(* Claims *)

EndpointOf(op) == IF op = "getOffers" THEN OFFERS_ENDPOINT ELSE TEST_ENDPOINT

\* C1: constructing a client throws if and only if config.agentId or
\* config.agentSecretKey is absent or the empty string, whatever the other
\* fields of the configuration are (checked under SpecCtor, which draws every
\* field from its whole set, for both variants).
C1_ConstructionThrowsIffCredentialsMissing ==
    ctor # "none" =>
        (ctor = "threw" <=>
            (config.agentId \in {{}, {""}} \/ config.agentSecretKey \in {{}, {""}}))

\* C1 witness: a construction that threw on an empty secret although every
\* other field was given, and (in another run) one that succeeded
C1_Witness ==
    /\ ctor = "threw"
    /\ config.agentId = {"ak_vdt337btkrm"}
    /\ config.agentSecretKey = {""}
    /\ config.baseUrl = {"https://proxy.example.com"}
    /\ config.autoVerify = {TRUE}

\* the base URL the claim C2 names for an absent baseUrl
EnvironmentUrl(cfg) ==
    IF cfg.environment = {"local"} THEN "http://localhost:3001"
    ELSE IF cfg.environment = {"development"} THEN "https://dev-api.agentvine.dev"
    ELSE "https://api.agentvine.dev"

\* every request made so far went to `base`
RequestsUse(base) ==
    \A i \in CallIds :
        Has(calls[i].request) =>
            Get(calls[i].request).url = base \o EndpointOf(calls[i].op)

\* C2 as stated: the base URL of all requests is config.baseUrl whenever a
\* baseUrl is given, and the environment's URL when none is given.
C2_Original ==
    ctor = "ok" =>
        LET base == IF Has(config.baseUrl) THEN Get(config.baseUrl)
                    ELSE EnvironmentUrl(config)
        IN  baseUrl = base /\ RequestsUse(base)

\* C2 amended: the base URL of all requests is config.baseUrl whenever a
\* non-empty baseUrl is given, whatever environment says; when baseUrl is absent
\* or the empty string it is http://localhost:3001 for environment 'local',
\* https://dev-api.agentvine.dev for 'development' and https://api.agentvine.dev
\* for 'production', any other value and an unset environment.
C2_BaseUrlResolution ==
    ctor = "ok" =>
        LET base == IF config.baseUrl \notin {{}, {""}} THEN Get(config.baseUrl)
                    ELSE EnvironmentUrl(config)
        IN  baseUrl = base /\ RequestsUse(base)

\* C2 witness: an explicit base URL won over environment 'local' and a request
\* went to it
C2_Witness ==
    /\ ctor = "ok"
    /\ config.baseUrl = {"https://proxy.example.com"}
    /\ config.environment = {"local"}
    /\ \E i \in CallIds :
          /\ calls[i].op = "getOffers"
          /\ Get(calls[i].request).url = "https://proxy.example.com/api/sdk/offers"

CredentialHeaders == {"Content-Type", "X-Agent-Id", "X-Agent-Secret-Key"}

\* the value the claim C3 gives each of the three headers
RequiredHeader(name) ==
    IF name = "Content-Type" THEN "application/json"
    ELSE IF name = "X-Agent-Id" THEN Get(config.agentId)
    ELSE Get(config.agentSecretKey)

\* C3: every outbound request (getOffers, testConnection, auto-verification and
\* background probe) carries Content-Type: application/json, X-Agent-Id =
\* config.agentId and X-Agent-Secret-Key = config.agentSecretKey; when makeRequest
\* is handed headers, one of them replaces one of the three only when it has the
\* same name, the other two stay, and every handed header is sent.
C3_RequestHeaders ==
    /\ \A i \in CallIds :
          Has(calls[i].request) =>
              LET h == Get(calls[i].request).headers
              IN  \A name \in CredentialHeaders :
                      name \in DOMAIN h /\ h[name] = RequiredHeader(name)
    /\ probe.fn = "makeRequest" =>
          LET h == probe.request.headers
              supplied == probe.supplied
          IN  /\ \A name \in CredentialHeaders :
                    /\ name \in DOMAIN h
                    /\ h[name] = IF name \in DOMAIN supplied THEN supplied[name]
                                 ELSE RequiredHeader(name)
              /\ \A name \in DOMAIN supplied : name \in DOMAIN h /\ h[name] = supplied[name]

\* C3 witness: a background probe and a getOffers request are out, and
\* makeRequest was handed an X-Agent-Id of its own and kept the secret header
C3_Witness ==
    /\ \E i \in CallIds : calls[i].op = "performHealthCheck"
    /\ \E i \in CallIds : calls[i].op = "getOffers"
    /\ probe.fn = "makeRequest"
    /\ "X-Agent-Id" \in DOMAIN probe.supplied
    /\ probe.request.headers["X-Agent-Id"] = "someone-else"
    /\ probe.request.headers["X-Agent-Secret-Key"] = "sk_va4n29t954"

\* the timeout the spec gives a call: config.timeout, 10000 when it is not set
ConfiguredTimeout == IF Has(config.timeout) THEN Get(config.timeout) ELSE DEFAULT_TIMEOUT

\* C4: a getOffers or testConnection call that has not completed within the
\* configured timeout (default 10000 ms) is rejected: none is still pending once
\* more than the timeout has passed since it started, and a call ended by the
\* timer has its request aborted and fails with code TIMEOUT_ERROR and a message
\* that names the timeout value.
C4_TimeoutBoundsEveryCall ==
    \A i \in CallIds :
        calls[i].op \in UserOps =>
            /\ InFlight(calls[i]) => now - calls[i].start <= ConfiguredTimeout
            /\ calls[i].aborted =>
                  /\ Has(calls[i].outcome)
                  /\ Get(calls[i].outcome).kind = "rejected"
                  /\ Get(calls[i].outcome).error.code = "TIMEOUT_ERROR"
                  /\ Includes(Get(calls[i].outcome).error.message,
                              ToString(ConfiguredTimeout))

\* a call of a request method has settled and its record is still held
Settled(c) == c.op \in RequestOps /\ Has(c.outcome)

\* C5: a response with a status outside 200-299 makes the call fail with a
\* message that contains the body's `error` text when the body has one, and the
\* HTTP status code otherwise.
C5_NonOkMessage ==
    \A i \in CallIds :
        LET c == calls[i] IN
        (Settled(c) /\ Has(c.response) /\ ~Get(c.response).ok /\ Has(c.body)) =>
            LET out == Get(c.outcome)
                body == Get(c.body)
            IN  /\ out.kind = "rejected"
                /\ Includes(out.error.message,
                       IF body.kind = "object" /\ Has(body.error) THEN Get(body.error)
                       ELSE ToString(Get(c.response).status))

\* the code the spec's precedence gives a failure message
CodeByPrecedence(m) ==
    IF Includes(m, "timeout") THEN "TIMEOUT_ERROR"
    ELSE IF Includes(m, "401") \/ Includes(m, "Unauthorized") THEN "AUTH_ERROR"
    ELSE IF Includes(m, "network") \/ Includes(m, "fetch") THEN "NETWORK_ERROR"
    ELSE "AGENTVINE_ERROR"

\* C6 as stated: for a context label c and a failure message m the classifier
\* returns message "c: m", details = the failure, and the code by first match of
\* timeout, 401/Unauthorized, network/fetch, else AGENTVINE_ERROR.
C6_Original ==
    probe.fn = "handleError" =>
        /\ probe.result.message = probe.context \o ": " \o probe.error.message
        /\ probe.result.details = probe.error
        /\ probe.result.code = CodeByPrecedence(probe.error.message)

\* C6: as C6_Original, except that for an empty failure message the message
\* returned is "c: Unknown error".
C6_Classifier ==
    probe.fn = "handleError" =>
        /\ probe.result.message =
              probe.context \o ": " \o
                  (IF probe.error.message = "" THEN "Unknown error" ELSE probe.error.message)
        /\ probe.result.details = probe.error
        /\ probe.result.code = CodeByPrecedence(probe.error.message)

\* C6 witness: a message with both "timeout" and "401" is classified TIMEOUT_ERROR
C6_Witness ==
    /\ probe.fn = "handleError"
    /\ Includes(probe.error.message, "timeout")
    /\ Includes(probe.error.message, "401")
    /\ probe.result.code = "TIMEOUT_ERROR"
    /\ probe.result.message = "Failed to get offers: " \o probe.error.message

\* C7: a getOffers call answered with status 401 fails with code AUTH_ERROR,
\* whatever JSON body the response carries.
C7_Status401IsAuthError ==
    \A i \in CallIds :
        LET c == calls[i] IN
        (c.op = "getOffers" /\ Has(c.outcome) /\ Has(c.response) /\ Has(c.body)
            /\ Get(c.response).status = 401 /\ Get(c.body).kind # "invalid") =>
            /\ Get(c.outcome).kind = "rejected"
            /\ Get(c.outcome).error.code = "AUTH_ERROR"

\* C8: a call answered with a 2xx status whose body parses resolves with exactly
\* the parsed body: the same fields, the offers in the server's order, also when
\* the body says success false.
C8_SuccessReturnsBody ==
    \A i \in CallIds :
        LET c == calls[i] IN
        (Settled(c) /\ Has(c.response) /\ Get(c.response).ok /\ Has(c.body)
            /\ Get(c.body).kind # "invalid") =>
            /\ Get(c.outcome).kind = "resolved"
            /\ Get(c.outcome).value = Get(c.body)
            /\ Get(c.outcome).value.offers = Get(c.body).offers

\* C8 witness: getOffers resolved with the two offers in the server's order
C8_Witness ==
    \E i \in CallIds :
        /\ calls[i].op = "getOffers"
        /\ calls[i].pc = "done"
        /\ Has(calls[i].outcome)
        /\ Get(calls[i].outcome).kind = "resolved"
        /\ Get(calls[i].outcome).value.offers = {<<Offer(2, "B"), Offer(1, "A")>>}

\* the call ended in one of the failures of spec section 7: no response
\* (transport failure or timeout), a non-2xx status, or an unreadable body
Failed(c) ==
    \/ ~Has(c.response)
    \/ ~Get(c.response).ok
    \/ (Has(c.body) /\ Get(c.body).kind = "invalid")

\* C9: every failure of getOffers or testConnection reaches the caller as a
\* structured error: a code among AGENTVINE_ERROR, TIMEOUT_ERROR, AUTH_ERROR and
\* NETWORK_ERROR, a message that starts with the operation's context label, and
\* details holding the underlying Error; no raw failure escapes.
C9_FailuresAreStructured ==
    \A i \in CallIds :
        LET c == calls[i] IN
        Settled(c) =>
            LET out == Get(c.outcome) IN
            /\ Failed(c) => out.kind = "rejected"
            /\ out.kind = "rejected" =>
                  /\ out.error.kind = "SDKError"
                  /\ out.error.code \in SDKErrorCodes
                  /\ StartsWith(out.error.message, ContextOf(c.op) \o ": ")
                  /\ out.error.details.kind = "Error"
                  /\ out.error.message =
                        ContextOf(c.op) \o ": " \o
                            (IF out.error.details.message = "" THEN "Unknown error"
                             ELSE out.error.details.message)

\* C9 witness: testConnection got a 2xx response whose body was not JSON and
\* failed with a structured error
C9_Witness ==
    \E i \in CallIds :
        /\ calls[i].op = "testConnection"
        /\ Has(calls[i].response) /\ Get(calls[i].response).ok
        /\ calls[i].body = {InvalidJson}
        /\ Has(calls[i].outcome)
        /\ Get(calls[i].outcome).kind = "rejected"
        /\ Get(calls[i].outcome).error.code = "AGENTVINE_ERROR"
        /\ Get(calls[i].outcome).error.details = JsonSyntaxError

\* the last callback invocation
LastCallback == cbLog[Len(cbLog)]

\* C10: at the step in which the connection test of verifyConnection settles:
\* resolved with success true and an agent, the client is connected, the agent
\* is stored, the error is cleared and onConnectionVerified (when configured) is
\* invoked with that agent; otherwise the client is disconnected, the error has
\* code CONNECTION_FAILED and onConnectionFailed (when configured) is invoked
\* with that error.
C10_VerifyConnectionOutcome ==
    [][\A i \in CallIds :
          (calls[i].op = "verifyConnection" /\ InFlight(calls[i]) /\ ~InFlight(calls'[i])) =>
              LET r == Get(calls'[i].outcome) IN
              IF r.kind = "resolved" /\ r.value.success = {TRUE} /\ Has(r.value.agent)
              THEN /\ isConnected' = TRUE
                   /\ agent' = r.value.agent
                   /\ connectionError' = {}
                   /\ IF Has(config.onConnectionVerified)
                      THEN /\ Len(cbLog') = Len(cbLog) + 1
                           /\ cbLog'[Len(cbLog')].name = "onConnectionVerified"
                           /\ cbLog'[Len(cbLog')].arg = Get(r.value.agent)
                      ELSE cbLog' = cbLog
              ELSE /\ isConnected' = FALSE
                   /\ Has(connectionError')
                   /\ Get(connectionError').code = "CONNECTION_FAILED"
                   /\ IF Has(config.onConnectionFailed)
                      THEN /\ Len(cbLog') = Len(cbLog) + 1
                           /\ cbLog'[Len(cbLog')].name = "onConnectionFailed"
                           /\ cbLog'[Len(cbLog')].arg = Get(connectionError')
                      ELSE cbLog' = cbLog
      ]_vars

\* C10 witness: the connection test resolved with agent 7, the client is
\* connected as that agent and onConnectionVerified is running with it
C10_Witness ==
    \E i \in CallIds :
        /\ calls[i].op = "verifyConnection"
        /\ calls[i].pc = "onConnectionVerified"
        /\ isConnected
        /\ agent = {Agent(7, "bot")}
        /\ connectionError = {}
        /\ Len(cbLog) > 0
        /\ LastCallback.name = "onConnectionVerified"
        /\ LastCallback.arg = Agent(7, "bot")

\* destroy() has returned: only destroy clears the interval timer of a
\* constructed health-checking client
Destroyed == variant = "health" /\ ctor = "ok" /\ healthCheckInterval = {}

\* C11: the auto-verification never rejects and never throws outward: whatever
\* the server and the configured callbacks do, no promise of verifyConnection is
\* rejected and there is no unhandled rejection.
C11_VerificationNeverRejects ==
    /\ unhandled = 0
    /\ \A i \in CallIds : calls[i].op = "verifyConnection" => calls[i].pc # "rejected"

\* the step in which the background probe i completes
ProbeCompletes(i) ==
    /\ calls[i].op = "performHealthCheck"
    /\ InFlight(calls[i])
    /\ ~InFlight(calls'[i])

\* C12: when a background probe that received a 2xx response completes, isReady()
\* is true, the last error is cleared, the last-success timestamp is the time of
\* completion, and the stored agent is the agent of the response if it has one
\* and is otherwise left as it was.
C12_ProbeSuccess ==
    [][\A i \in CallIds :
          (ProbeCompletes(i) /\ Has(calls'[i].response) /\ Get(calls'[i].response).ok) =>
              LET body == Get(calls'[i].body) IN
              /\ isConnected' = TRUE
              /\ connectionError' = {}
              /\ lastHealthCheck' = {now}
              /\ agent' = IF Has(body.agent) THEN body.agent ELSE agent
      ]_vars

\* C13: when a background probe that received a non-2xx response, or whose
\* request threw (transport failure or timeout), completes, isReady() is false and
\* the last error is populated; the probe's promise resolves, nothing is thrown
\* out of the timer callback, no callback is invoked and no call of a public
\* method is affected.
C13_ProbeFailure ==
    [][\A i \in CallIds :
          (ProbeCompletes(i)
              /\ (~Has(calls'[i].response) \/ ~Get(calls'[i].response).ok)) =>
              /\ isConnected' = FALSE
              /\ Has(connectionError')
              /\ Get(connectionError').code \in {"HEALTH_CHECK_FAILED", "HEALTH_CHECK_ERROR"}
              /\ Get(calls'[i].outcome).kind = "resolved"
              /\ unhandled' = unhandled
              /\ cbLog' = cbLog
              /\ \A j \in CallIds :
                    calls[j].op \in UserOps =>
                        calls'[j] \in {calls[j], Forgotten(calls[j])}
      ]_vars

\* C13 witness: a probe answered 401 has completed while a caller's request is
\* in flight; the client is disconnected with the error of that response
C13_Witness ==
    /\ \E i \in CallIds :
          /\ calls[i].op = "performHealthCheck"
          /\ calls[i].pc = "done"
          /\ calls[i].response = {Response(401, "Unauthorized")}
          /\ connectionError = {HealthCheckFailed(Response(401, "Unauthorized"))}
    /\ \E j \in CallIds : calls[j].op \in UserOps /\ InFlight(calls[j])
    /\ ~isReady

\* the number of background probes started so far
ProbesStarted == NumCalls({"performHealthCheck"})

\* C14: once destroy() has returned, no timer that would start a background
\* probe is armed, and no probe request is started from then on, also when
\* destroy() is called within the first second after construction.
C14_DestroyLeavesNoProbeTimer ==
    [][/\ Destroyed' => (healthCheckInterval' = {} /\ initialTimer' = {})
       /\ Destroyed => ProbesStarted' = ProbesStarted
      ]_vars

\* C15: once destroy() has returned, the values returned by getConnectionStatus()
\* and isReady() never change again.
C15_FrozenAfterDestroy ==
    [][Destroyed => (getConnectionStatus' = getConnectionStatus /\ isReady' = isReady)]_vars

\* a caller reads the status: client.ts:98-104
CallGetConnectionStatus ==
    /\ ctor = "ok"
    /\ variant = "health"
    /\ probe' = [fn |-> "getConnectionStatus", status |-> getConnectionStatus]
    /\ UNCHANGED <<variant, config, env, ctor, baseUrl, clientVars>>

\* a caller asks isReady(): client.ts:109-111
CallIsReady ==
    /\ ctor = "ok"
    /\ variant = "health"
    /\ probe' = [fn |-> "isReady", ready |-> isReady]
    /\ UNCHANGED <<variant, config, env, ctor, baseUrl, clientVars>>

\* The health-checking client without auto-verification, with one caller
\* invocation, the background probes, and a caller reading the status
InitReads ==
    /\ variant = "health"
    /\ config \in {c \in RunConfigs : c.autoVerify = {FALSE}}
    /\ env = [userCalls |-> 1, server |-> "basic"]
    /\ InitClient

NextReads ==
    \/ Construct
    \/ \E request \in OfferRequests : GetOffers(request)
    \/ TestConnection
    \/ \E i \in CallIds : \E response \in ResponsesTo(calls[i]) : FetchResolves(i, response)
    \/ \E i \in CallIds : \E error \in TransportErrors(env.server) : FetchRejects(i, error)
    \/ \E i \in CallIds : TimeoutFires(i)
    \/ \E i \in CallIds : \E body \in BodiesOf(calls[i]) : JsonSettles(i, body)
    \/ IntervalFires
    \/ InitialTimerFires
    \/ destroy
    \/ Tick
    \/ CallGetConnectionStatus
    \/ CallIsReady

SpecReads == InitReads /\ [][NextReads]_vars

\* the connected flag, the stored agent and the last error
Connectivity == <<isConnected, agent, connectionError>>

\* C16: a caller's getOffers or testConnection (its invocation and every step
\* up to its resolution or rejection), destroy(), getConnectionStatus() and
\* isReady() leave the connected flag, the stored agent and the last error
\* unchanged; the two reads return the state, start no request and arm no timer.
C16_OnlyWritersChangeConnectivity ==
    [][/\ (\E i \in CallIds :
              /\ calls[i].op \in UserOps
              /\ InFlight(calls[i])
              /\ calls'[i].pc # calls[i].pc) => Connectivity' = Connectivity
       /\ (Len(calls') = Len(calls) + 1 /\ calls'[Len(calls')].op \in UserOps) =>
              Connectivity' = Connectivity
       /\ (Has(healthCheckInterval) /\ healthCheckInterval' = {}) =>
              Connectivity' = Connectivity
       /\ probe' # probe =>
              /\ Connectivity' = Connectivity
              /\ calls' = calls
              /\ healthCheckInterval' = healthCheckInterval
              /\ initialTimer' = initialTimer
              /\ probe'.fn = "isReady" => probe'.ready = isConnected
              /\ probe'.fn = "getConnectionStatus" =>
                    probe'.status = [isConnected |-> isConnected, agent |-> agent,
                                     error |-> connectionError]
      ]_vars

\* C16 witness: a probe connected the client, a caller's request was then
\* rejected, and isReady() still answers true
C16_Witness ==
    /\ isConnected
    /\ \E i \in CallIds :
          /\ calls[i].op \in UserOps
          /\ calls[i].pc = "done"
          /\ Has(calls[i].outcome)
          /\ Get(calls[i].outcome).kind = "rejected"
    /\ probe = [fn |-> "isReady", ready |-> TRUE]

\* C17: a successful construction of the health-checking client issues the
\* verification request exactly when config.autoVerify is not false (so also
\* when it is unset), arms the first probe 1000 ms and the periodic probe
\* 30000 ms ahead whatever autoVerify is, and waits for no response: when the
\* constructor returns the request is still in flight, isReady() is false, the
\* agent and the last error are null and no callback has been invoked.
C17_ConstructionStartsBackgroundWork ==
    [][(ctor = "none" /\ ctor' = "ok" /\ variant = "health") =>
          /\ Len(calls') = IF config.autoVerify # {FALSE} THEN 1 ELSE 0
          /\ \A i \in 1..Len(calls') :
                /\ calls'[i].op = "verifyConnection"
                /\ calls'[i].pc = "fetch"
                /\ Get(calls'[i].request).url = baseUrl' \o "/api/sdk/test"
          /\ initialTimer' = {now + 1000}
          /\ healthCheckInterval' = {now + 30000}
          /\ isReady' = FALSE
          /\ agent' = {}
          /\ connectionError' = {}
          /\ cbLog' = <<>>
      ]_vars

\* C17 witness: constructed with autoVerify unset and both callbacks configured:
\* the verification request is in flight and both probe timers are armed
C17_Witness ==
    /\ variant = "health"
    /\ ctor = "ok"
    /\ config.autoVerify = {}
    /\ config.onConnectionVerified = {"fn"}
    /\ Len(calls) = 1
    /\ calls[1].op = "verifyConnection"
    /\ calls[1].pc = "fetch"
    /\ initialTimer = {1000}
    /\ healthCheckInterval = {30000}
    /\ ~isReady

\* C18: when the completion of a background probe changes the connected flag,
\* the configured callback for the new value is invoked in that step:
\* onConnectionVerified when the client becomes connected, onConnectionFailed
\* when it becomes disconnected.
C18_ProbeChangeInvokesCallback ==
    [][\A i \in CallIds :
          (ProbeCompletes(i) /\ isConnected' # isConnected) =>
              LET callback == IF isConnected' THEN config.onConnectionVerified
                              ELSE config.onConnectionFailed
                  name == IF isConnected' THEN "onConnectionVerified"
                          ELSE "onConnectionFailed"
              IN  Has(callback) =>
                      /\ Len(cbLog') = Len(cbLog) + 1
                      /\ cbLog'[Len(cbLog')].name = name
      ]_vars

\* C19: no operation retries and the probe schedule is unconditional: a step
\* in which a request advances, resolves or fails starts no request, no step
\* starts more than one, and the interval timer changes only by firing, which
\* starts one probe and re-arms the timer 30000 ms after its deadline whatever
\* the connectivity state and the earlier probes are, or by destroy().
C19_NoRetryFixedSchedule ==
    [][/\ (\E i \in CallIds : calls'[i] # calls[i]) => Len(calls') = Len(calls)
       /\ Len(calls') <= Len(calls) + 1
       /\ (Has(healthCheckInterval) /\ healthCheckInterval' # healthCheckInterval) =>
             \/ /\ healthCheckInterval' = {}
                /\ calls' = calls
                /\ Connectivity' = Connectivity
             \/ /\ healthCheckInterval' = {Get(healthCheckInterval) + 30000}
                /\ Len(calls') = Len(calls) + 1
                /\ calls'[Len(calls')].op = "performHealthCheck"
                /\ calls'[Len(calls')].start = Get(healthCheckInterval)
      ]_vars

\* C19 witness: the probe of t=1000 is still in flight and the client is
\* disconnected; the interval has started the probe of t=30000 all the same and
\* is armed for t=60000
C19_Witness ==
    /\ ~isConnected
    /\ healthCheckInterval = {60000}
    /\ \E i, j \in CallIds :
          /\ calls[i].op = "performHealthCheck"
          /\ calls[i].start = 1000
          /\ InFlight(calls[i])
          /\ calls[j].op = "performHealthCheck"
          /\ calls[j].start = 30000

\* The health-checking client with auto-verification against a server that
\* gives the same answer to every request; every request is answered and the
\* callbacks return
InitSame ==
    /\ variant = "health"
    /\ config \in {c \in RunConfigs : AutoVerifyEnabled(c)}
    /\ env \in [userCalls : {0}, server : SameAnswerServers]
    /\ InitClient

NextSame ==
    \/ Construct
    \/ \E i \in CallIds : \E response \in ResponsesTo(calls[i]) : FetchResolves(i, response)
    \/ \E i \in CallIds : \E body \in BodiesOf(calls[i]) : JsonSettles(i, body)
    \/ \E i \in CallIds : CallbackReturns(i)
    \/ IntervalFires
    \/ InitialTimerFires
    \/ Tick

SpecSame == InitSame /\ [][NextSame]_vars

\* C20: against a server that gives the same answer to every /api/sdk/test
\* request, the auto-verification and the background probes write the same
\* connected flag: when one of them completes after another has completed,
\* isReady() keeps its value, so the final value does not depend on the order.
C20_WritersConverge ==
    [][((\E i \in CallIds : InFlight(calls[i]) /\ ~InFlight(calls'[i]))
          /\ (\E j \in CallIds : ~InFlight(calls[j]))) => isReady' = isReady
      ]_vars

\* the calls whose fetch is pending
FetchPending == {i \in CallIds : calls[i].pc = "fetch"}

\* the calls whose abort timer is armed
TimerArmed == {i \in CallIds : Has(calls[i].timer)}

\* C21: the abort timer of a request is cancelled whenever its fetch settles,
\* with a response or by throwing: no timer is armed for a request whose fetch
\* is no longer pending, and there are never more armed abort timers than
\* pending requests.
C21_NoTimerLeak ==
    /\ \A i \in CallIds : calls[i].pc # "fetch" => calls[i].timer = {}
    /\ Cardinality(TimerArmed) <= Cardinality(FetchPending)

\* C21 witness: a caller's request failed without a response and its timer is
\* cancelled, while the fetch of a probe is pending with its timer armed
C21_Witness ==
    /\ \E i \in CallIds :
          /\ calls[i].op \in UserOps
          /\ calls[i].pc = "done"
          /\ ~Has(calls[i].response)
          /\ calls[i].timer = {}
    /\ \E j \in CallIds :
          /\ calls[j].op = "performHealthCheck"
          /\ calls[j].pc = "fetch"
          /\ Has(calls[j].timer)

\* C22: destroy() changes no request, and the step in which the timeout of one
\* request fires leaves every other request in flight as it was.
C22_CancelledOnlyByOwnTimeout ==
    [][/\ (Has(healthCheckInterval) /\ healthCheckInterval' = {}) => calls' = calls
       /\ \A i \in CallIds :
             (~calls[i].aborted /\ calls'[i].aborted) =>
                 \A j \in CallIds \ {i} : InFlight(calls[j]) => calls'[j] = calls[j]
      ]_vars

\* C22 witness: after destroy() the request of the verification has timed out
\* while the request of a probe, started before that timeout, is still in flight
\* and not aborted
C22_Witness ==
    /\ Destroyed
    /\ \E i, j \in CallIds :
          /\ calls[i].op = "verifyConnection"
          /\ calls[i].aborted
          /\ calls[j].op = "performHealthCheck"
          /\ InFlight(calls[j])
          /\ ~calls[j].aborted
          /\ calls[j].start < calls[i].start + calls[i].timeout

\* the errors rejected to the callers whose results are still held
RejectedToCallers ==
    {Get(calls[i].outcome).error :
        i \in {j \in CallIds : /\ calls[j].op \in UserOps
                               /\ Has(calls[j].outcome)
                               /\ Get(calls[j].outcome).kind = "rejected"}}

\* C23 as stated: the error of the connectivity state carries one of two codes,
\* one for a failed verification and one for a failed probe (so two errors in a
\* row that are not verification failures have the same code), and neither code
\* is in an error rejected to a caller.
C23_Original ==
    [][/\ (/\ Has(connectionError) /\ Has(connectionError')
           /\ Get(connectionError).code # "CONNECTION_FAILED"
           /\ Get(connectionError').code # "CONNECTION_FAILED") =>
              Get(connectionError').code = Get(connectionError).code
       /\ \A e \in RejectedToCallers : e.code \in SDKErrorCodes
      ]_vars

\* C23: the error of the connectivity state carries one of three internal
\* codes, CONNECTION_FAILED for a failed verification, HEALTH_CHECK_FAILED for a
\* probe answered non-2xx and HEALTH_CHECK_ERROR for a probe that threw; the
\* failure callback gets CONNECTION_FAILED, and none of the three is the code of
\* an error rejected to a caller.
C23_InternalCodes ==
    /\ Has(connectionError) =>
          Get(connectionError).code \in
              {"CONNECTION_FAILED", "HEALTH_CHECK_FAILED", "HEALTH_CHECK_ERROR"}
    /\ \A k \in 1..Len(cbLog) :
          cbLog[k].name = "onConnectionFailed" => cbLog[k].arg.code = "CONNECTION_FAILED"
    /\ \A e \in RejectedToCallers :
          /\ e.code \in SDKErrorCodes
          /\ e.code \notin {"CONNECTION_FAILED", "HEALTH_CHECK_FAILED", "HEALTH_CHECK_ERROR"}

\* C23 witness: the last error is that of a probe that threw, while a caller
\* holds a rejected request
C23_Witness ==
    /\ Has(connectionError)
    /\ Get(connectionError).code = "HEALTH_CHECK_ERROR"
    /\ RejectedToCallers # {}

\* a verification or a probe has completed
WriterCompleted ==
    \E i \in CallIds :
        calls[i].op \in {"verifyConnection", "performHealthCheck"} /\ ~InFlight(calls[i])

\* the connected flag and the last error of a status agree
Agree(status, completed) ==
    /\ status.isConnected => status.error = {}
    /\ (completed /\ ~status.isConnected) => status.error # {}

\* C24: in every state, and in every status a callback was invoked with, the
\* connected flag and the last error agree: connected implies no error, and
\* once a verification or a probe has completed, disconnected implies an error.
C24_FlagAndErrorAgree ==
    /\ Agree(getConnectionStatus, WriterCompleted)
    /\ \A k \in 1..Len(cbLog) : Agree(cbLog[k].status, TRUE)

\* C24 witness: the verification failed and its callback was invoked; a probe
\* has connected the client since and the error is cleared
C24_Witness ==
    /\ isConnected
    /\ connectionError = {}
    /\ Len(cbLog) > 0
    /\ cbLog[1].name = "onConnectionFailed"
    /\ ~cbLog[1].status.isConnected
    /\ \E i \in CallIds : calls[i].op = "performHealthCheck" /\ calls[i].pc = "done"

\* C25: whenever isReady() is true, getConnectionStatus().agent is not null.
C25_ConnectedHasAgent == isReady => getConnectionStatus.agent # {}

\* C26: a failed verification or probe leaves the stored agent as it is: a
\* stored agent never becomes null again, and the agent changes only in the
\* step in which a verification or probe answered 2xx completes, to the agent of
\* that answer, the client becoming connected.
C26_AgentKept ==
    [][/\ Has(agent) => Has(agent')
       /\ agent' # agent =>
             \E i \in CallIds :
                 /\ calls[i].op \in {"verifyConnection", "performHealthCheck"}
                 /\ InFlight(calls[i]) /\ ~InFlight(calls'[i])
                 /\ Has(calls'[i].response) /\ Get(calls'[i].response).ok
                 /\ Has(calls'[i].body)
                 /\ agent' = Get(calls'[i].body).agent
                 /\ isConnected'
      ]_vars

\* C26 witness: the client is disconnected by a failed probe and still reports
\* agent 7
C26_Witness ==
    /\ ~isConnected
    /\ Has(connectionError)
    /\ Get(connectionError).code \in {"HEALTH_CHECK_FAILED", "HEALTH_CHECK_ERROR"}
    /\ agent = {Agent(7, "bot")}

\* C27: the auto-verification invokes exactly one of the two configured
\* callbacks, once: never both and never one twice, whatever the callback does;
\* with autoVerify false no callback is ever invoked.
C27_OneCallbackOnce ==
    /\ Len(cbLog) <= 1
    /\ config.autoVerify = {FALSE} => cbLog = <<>>
    /\ (\E i \in CallIds : calls[i].op = "verifyConnection" /\ calls[i].pc \in {"done", "rejected"})
          => (Has(config.onConnectionVerified) /\ Has(config.onConnectionFailed)
                 => Len(cbLog) = 1)

\* C28: a construction that failed for missing credentials has issued no
\* request, armed neither the probe interval nor the initial probe timer and
\* invoked no callback, and nothing runs afterwards.
C28_FailedConstructionHasNoEffect ==
    ctor = "threw" =>
        /\ calls = <<>>
        /\ healthCheckInterval = {}
        /\ initialTimer = {}
        /\ cbLog = <<>>
        /\ unhandled = 0
        /\ ~isConnected /\ agent = {} /\ connectionError = {}

\* C28 witness: the health-checking variant rejected a configuration without
\* agent id that asked for auto-verification and configured both callbacks
C28_Witness ==
    /\ ctor = "threw"
    /\ variant = "health"
    /\ ~Has(config.agentId)
    /\ config.autoVerify # {FALSE}
    /\ Has(config.onConnectionVerified)
    /\ Has(config.onConnectionFailed)
    /\ calls = <<>>
    /\ initialTimer = {}

\* The health-checking client, never destroyed, against a server whose
\* reachability is settled from SwitchTime on: "up" and "down" never change,
\* "recovering" is down before SwitchTime and up from then on, "degrading" the
\* reverse.
SwitchTime == 20000

TrackServers == {"up", "down", "recovering", "degrading"}

ServerUp ==
    CASE env.server = "recovering" -> now >= SwitchTime
      [] env.server = "degrading"  -> now < SwitchTime
      [] env.server = "down"       -> FALSE
      [] OTHER                     -> TRUE

\* while up the server answers 200; while down it answers a non-2xx status,
\* lets fetch reject or does not answer at all
TrackResponses ==
    IF ServerUp THEN {Response(200, "OK")}
    ELSE {Response(401, "Unauthorized"), Response(503, "Service Unavailable")}

\* a 2xx answer carries success true and an agent; a non-2xx answer an error
TrackBodies(c) ==
    IF ~Has(c.response) THEN {}
    ELSE IF Get(c.response).ok
        THEN {TestBody(TRUE, "Connection successful", {Agent(7, "bot")})}
        ELSE {ErrorBody({"bad creds"})}

\* no response is waiting for its body to be read
NoBodyPending == \A i \in CallIds : calls[i].pc # "json"

InitTrack ==
    /\ variant = "health"
    /\ config \in RunConfigs
    /\ env \in [userCalls : {0}, server : TrackServers]
    /\ InitClient

TrackFetchResolves ==
    \E i \in CallIds : \E response \in TrackResponses : FetchResolves(i, response)

TrackFetchRejects ==
    \E i \in CallIds : \E error \in TransportErrors("basic") : ~ServerUp /\ FetchRejects(i, error)

TrackTimeoutFires == \E i \in CallIds : ~ServerUp /\ TimeoutFires(i)

TrackJsonSettles == \E i \in CallIds : \E body \in TrackBodies(calls[i]) : JsonSettles(i, body)

TrackCallbackReturns == \E i \in CallIds : CallbackReturns(i)

TrackOnVerifiedThrows == \E i \in CallIds : OnVerifiedThrows(i)

TrackOnFailedThrows == \E i \in CallIds : OnFailedThrows(i)

\* a body is read before the next timer fires
TrackTick == NoBodyPending /\ Tick

NextTrack ==
    \/ Construct
    \/ TrackFetchResolves
    \/ TrackFetchRejects
    \/ TrackTimeoutFires
    \/ TrackJsonSettles
    \/ TrackCallbackReturns
    \/ TrackOnVerifiedThrows
    \/ TrackOnFailedThrows
    \/ IntervalFires
    \/ InitialTimerFires
    \/ TrackTick

\* the event loop runs every timer callback that is due and every continuation
\* whose promise has settled; a pending request ends (it is answered, fails or
\* times out); time passes
FairTrack ==
    /\ WF_vars(Construct)
    /\ WF_vars(TrackFetchResolves \/ TrackFetchRejects \/ TrackTimeoutFires)
    /\ WF_vars(TrackJsonSettles)
    /\ WF_vars(TrackCallbackReturns \/ TrackOnVerifiedThrows \/ TrackOnFailedThrows)
    /\ WF_vars(IntervalFires)
    /\ WF_vars(InitialTimerFires)
    /\ WF_vars(TrackTick)

SpecTrack == InitTrack /\ [][NextTrack]_vars /\ FairTrack

\* C29: destroy() never being called and timers and responses being delivered
\* fairly, if from some point on every /api/sdk/test request is answered 2xx
\* with success true and an agent then isReady() is eventually true for good,
\* and if from some point on every such request fails then isReady() is
\* eventually false for good.
C29_FlagTracksReachability ==
    /\ <>[]ServerUp => <>[]isReady
    /\ <>[](~ServerUp) => <>[](~isReady)

\* C29 witness: the server went down at SwitchTime after the client had been
\* connected with agent 7; the probe of t=30000 has failed and the client is
\* not ready
C29_Witness ==
    /\ env.server = "degrading"
    /\ now >= SwitchTime
    /\ ~isReady
    /\ agent = {Agent(7, "bot")}
    /\ Has(connectionError)
    /\ Get(connectionError).code \in {"HEALTH_CHECK_FAILED", "HEALTH_CHECK_ERROR"}
    /\ \E i \in CallIds : calls[i].op = "performHealthCheck" /\ calls[i].start = 30000
                            /\ calls[i].pc = "done"

----------------------------------------------------------------------------
(* The plain variant, client.ts:313-455: its constructor and request methods,
   as functions of the configuration, the invocation and the server's answer *)

\* client.ts:321-336
PlainResolveBaseUrl(cfg) ==
    IF TruthyStr(cfg.baseUrl) THEN Get(cfg.baseUrl)
    ELSE CASE cfg.environment = {"local"} -> "http://localhost:3001"
           [] cfg.environment = {"development"} -> "https://dev-api.agentvine.dev"
           [] OTHER -> "https://api.agentvine.dev"

PLAIN_DEFAULT_TIMEOUT == 10000

\* client.ts:404
PlainEffectiveTimeout(cfg) ==
    IF TruthyNum(cfg.timeout) THEN Get(cfg.timeout) ELSE PLAIN_DEFAULT_TIMEOUT

\* client.ts:412-417: options.headers is spread last
PlainRequestHeaders(cfg, supplied) ==
    [k \in {"Content-Type", "X-Agent-Id", "X-Agent-Secret-Key"} \cup DOMAIN supplied |->
        IF k \in DOMAIN supplied THEN supplied[k]
        ELSE IF k = "Content-Type" THEN "application/json"
        ELSE IF k = "X-Agent-Id" THEN Get(cfg.agentId)
        ELSE Get(cfg.agentSecretKey)]

\* client.ts:403 and 410-419
PlainMakeRequest(cfg, endpoint, options) ==
    [url |-> PlainResolveBaseUrl(cfg) \o endpoint,
     method |-> options.method,
     headers |-> PlainRequestHeaders(cfg, options.headers),
     body |-> options.body]

\* client.ts:350-357
PlainGetOffers(cfg, request) ==
    PlainMakeRequest(cfg, "/api/sdk/offers",
        [method |-> "POST", headers |-> EmptyHeaders,
         body |-> [query |-> request.query, sessionId |-> request.sessionId,
                   context |-> request.context]])

\* client.ts:377-384
PlainTestConnection(cfg, t) ==
    PlainMakeRequest(cfg, "/api/sdk/test",
        [method |-> "POST", headers |-> EmptyHeaders,
         body |-> [query |-> "test query", context |-> {"test context"},
                   sessionId |-> "test-session-" \o ToString(t)]])

\* client.ts:436-454
PlainHandleError(error, context) ==
    LET errorMessage == error.message
        code == IF Includes(errorMessage, "timeout") THEN "TIMEOUT_ERROR"
                ELSE IF Includes(errorMessage, "401") \/ Includes(errorMessage, "Unauthorized")
                    THEN "AUTH_ERROR"
                ELSE IF Includes(errorMessage, "network") \/ Includes(errorMessage, "fetch")
                    THEN "NETWORK_ERROR"
                ELSE "AGENTVINE_ERROR"
    IN  [kind |-> "SDKError",
         code |-> code,
         message |-> context \o ": " \o
                     (IF errorMessage = "" THEN "Unknown error" ELSE errorMessage),
         details |-> error]

\* client.ts:367 and 394
PlainContext(op) ==
    IF op = "getOffers" THEN "Failed to get offers" ELSE "Connection test failed"

\* client.ts:359-368 and 386-395: fetch resolved with `response` and
\* response.json() settled on `body`
PlainAnswered(op, response, body) ==
    IF body.kind = "invalid"
        THEN Threw(PlainHandleError(JsonSyntaxError, PlainContext(op)))
    ELSE IF response.ok THEN Returned(body)
    ELSE IF body.kind = "null"
        THEN Threw(PlainHandleError(NullPropertyError("error"), PlainContext(op)))
    ELSE Threw(PlainHandleError(
             Err("Error", IF TruthyStr(body.error) THEN Get(body.error)
                          ELSE "HTTP " \o ToString(response.status) \o ": "
                               \o response.statusText),
             PlainContext(op)))

\* client.ts:423-429, then 366-368 or 393-395: fetch rejected with `error`
PlainRequestFails(cfg, op, error) ==
    LET thrown == IF error.kind = "Error" /\ error.name = "AbortError"
                      THEN Err("Error", "Request timeout after "
                                   \o ToString(PlainEffectiveTimeout(cfg)) \o "ms")
                      ELSE error
    IN  Threw(PlainHandleError(thrown, PlainContext(op)))

\* the requests the plain variant sends for invocation `op` at time t
PlainSends(cfg, op, t) ==
    IF op = "getOffers" THEN {PlainGetOffers(cfg, request) : request \in OfferRequests}
    ELSE {PlainTestConnection(cfg, t)}

\* what the invocation of the plain variant ends with when the server behaves
\* as it did for the settled call c: no answer before the timeout, an answer,
\* or a transport error
PlainOutcomes(cfg, c) ==
    IF c.aborted THEN {PlainRequestFails(cfg, c.op, AbortError)}
    ELSE IF Has(c.response)
        THEN {PlainAnswered(c.op, Get(c.response), body) : body \in c.body}
    ELSE {PlainRequestFails(cfg, c.op, error) : error \in TransportErrors(env.server)}

\* C30: getOffers and testConnection of either variant send the request the
\* plain variant sends for the same configuration and invocation, with the same
\* timeout, and end with the value or structured error the plain variant ends
\* with for the same server behaviour, whatever the connectivity state is and
\* whatever verification or probe runs concurrently.
C30_VariantsAgree ==
    [][/\ (Len(calls') = Len(calls) + 1 /\ calls'[Len(calls')].op \in UserOps) =>
             LET c == calls'[Len(calls')]
             IN  /\ c.request \in {{r} : r \in PlainSends(config, c.op, now)}
                 /\ c.timeout = PlainEffectiveTimeout(config)
                 /\ c.timer = {now + PlainEffectiveTimeout(config)}
       /\ \A i \in CallIds :
             (calls[i].op \in UserOps /\ InFlight(calls[i]) /\ ~InFlight(calls'[i])) =>
                 /\ calls'[i].outcome \in {{o} : o \in PlainOutcomes(config, calls'[i])}
                 /\ Connectivity' = Connectivity
      ]_vars

\* C30 witness: the health-checking client is connected and a probe is in
\* flight; a getOffers answered 401 has been rejected with AUTH_ERROR
C30_Witness ==
    /\ variant = "health"
    /\ isConnected
    /\ \E j \in CallIds : calls[j].op = "performHealthCheck" /\ InFlight(calls[j])
    /\ \E i \in CallIds :
          /\ calls[i].op = "getOffers"
          /\ calls[i].pc = "done"
          /\ calls[i].outcome = {PlainAnswered("getOffers", Response(401, "Unauthorized"),
                                               ErrorBody({"bad creds"}))}

====
